---- MODULE Spec2Model ----
(***************************************************************************)
(* Model of the time-view ingestion pipeline of data_saving_python:        *)
(* TimeViewFeature (src/features/time_view.py), the consumer side that     *)
(* demultiplexes decoded sample batches into four ring buffers, resizes    *)
(* them from the estimated arrival rate and persists frames while a        *)
(* recording session is active.                                            *)
(*                                                                         *)
(* Scaling.  Three literals of the source are of a size no exhaustive      *)
(* search can fill: the initial deque capacity 4096 (line 94), the per-call *)
(* limit 4096 * 4 (lines 283, 311) and the smallest capacity 100 (line 328).*)
(* The model keeps their role and their arithmetic and replaces the        *)
(* numbers by initial_buffer_size, MaxGroups * 4 and MinBufferSize, small   *)
(* enough for eviction, truncation and shrinking to happen.  Every formula  *)
(* below is stated in terms of these names, never of their values.         *)
(*                                                                         *)
(* Time.  datetime.now() is an integer number of ticks, TicksPerSec ticks  *)
(* to the second; the wall clock is not monotonic, so each arrival draws   *)
(* its instant freely from Times.  data_rate is kept as an exact fraction  *)
(* num/den (samples per second).                                           *)
(*                                                                         *)
(* The second half models the producer side, MQTTWorker and MQTTHandler    *)
(* (src/mqtthandler.py), as three threads.  The main thread owns the       *)
(* handler and runs its slots; MQTTHandler.stop calls MQTTWorker.stop      *)
(* directly, so that method runs there too.  The worker thread (the        *)
(* QThread the worker was moved to) runs MQTTWorker.start, which           *)
(* thread.started calls, and every connect_with_retry.  The network        *)
(* thread, which client.loop_start creates and client.loop_stop joins,     *)
(* runs on_connect and on_message.  A handler is cut into steps wherever   *)
(* another thread can observe or change what it works on.                  *)
(***************************************************************************)
EXTENDS Integers, Sequences, FiniteSets, TLC

\* ---------------------------------------------------------------- bounds
\* stands for 4096 in "4096 * 4" (time_view.py:283,311)
MaxGroups == 3
\* stands for 4096 (time_view.py:94)
initial_buffer_size == 4
\* stands for 100 (time_view.py:328)
MinBufferSize == 3
\* clock resolution, and the latest instant of an arrival
TicksPerSec == 50
MaxTime == 2
\* Spec: batches consumed for the selected tag, recording sessions started
MaxMsgs == 2
MaxSessions == 2
\* SpecBuf: batches consumed for the selected tag
BufMsgs == 3
\* SpecWin: batches consumed for the selected tag
WinMsgs == 4
\* SpecTicks: the values handed to generate_y_ticks lie in -MaxTick..MaxTick
MaxTick == 13
\* SpecTicks: the longest list handed to generate_y_ticks
MaxTickLen == 2
\* SpecMqtt: calls of MQTTHandler.start that start the thread, inbound
\* messages, reconnections after a lost link
MaxStarts == 1
MaxInbound == 1
MaxReconnects == 1

\* arrival instants: the earliest and the latest, so that the time between two
\* arrivals is positive, zero or negative
Times == {1, MaxTime}
Tags == {"tagA", "tagB"}
\* self.mqtt_tag = None (time_view.py:93)
None == "<None>"
NoTagsAvailable == "No Tags Available"
TagInputs == Tags \cup {"", NoTagsAvailable}
\* lengths of a decoded batch: a lone partial group, one group, one group
\* and a partial one, and more complete groups than one call processes
Lens == {3, 4, 6, 4 * MaxGroups + 4}
\* the one-group batch
OneGroup == {4}
\* the batch of as many groups as one call processes
FullBatch == {4 * MaxGroups}
\* times between two arrivals of full batches that make a rate of about
\* 3 * MinBufferSize and one of about MinBufferSize samples per second
FastGap == (MaxGroups * TicksPerSec) \div (3 * MinBufferSize)
SlowGap == (MaxGroups * TicksPerSec) \div MinBufferSize
WinTimes == {1, 1 + FastGap, 1 + FastGap + SlowGap}
project_name == "proj"

Min(a, b) == IF a < b THEN a ELSE b
Max(a, b) == IF a > b THEN a ELSE b

\* The batch the environment delivers as the m-th consumed one: n values,
\* each one naming its batch and its position (the code never branches on a
\* value, so the tagging loses no behaviour and makes provenance visible).
Batch(m, n) == [i \in 1..n |-> 100 * m + i]
BatchOf(v) == v \div 100
PosOf(v) == v % 100

\* ---------------------------------------------------------------- deque
\* mutant: a full deque refuses the new element instead of evicting the oldest
DequeAppend_DropNewest(d, x) ==
    IF Len(d.items) >= d.maxlen THEN d ELSE [d EXCEPT !.items = Append(@, x)]

\* collections.deque with maxlen, as a record [items, maxlen]
DequeAppend(d, x) ==
    IF d.maxlen = 0 THEN d
    ELSE IF Len(d.items) = d.maxlen
         THEN [d EXCEPT !.items = Append(Tail(@), x)]
         ELSE [d EXCEPT !.items = Append(@, x)]

RECURSIVE DequeExtend(_, _)
DequeExtend(d, xs) ==
    IF xs = <<>> THEN d ELSE DequeExtend(DequeAppend(d, Head(xs)), Tail(xs))

\* mutant: the reallocation keeps the oldest n elements
DequeNew_KeepOldest(xs, n) ==
    [items |-> SubSeq(xs, 1, Min(Len(xs), n)), maxlen |-> n]

\* deque(iterable, maxlen=n)
DequeNew(xs, n) == DequeExtend([items |-> <<>>, maxlen |-> n], xs)

\* mutant: clear() forgotten
DequeClear_Nothing(d) == d

\* deque.clear()
DequeClear(d) == [d EXCEPT !.items = <<>>]

\* ---------------------------------------------------------------- state
VARIABLES
    mqtt_tag,              \* selected tag, or None
    time_view_buffers,     \* <<deque, deque, deque, deque>>, channels 0..3
    time_view_timestamps,  \* deque of arrival timestamps
    last_data_time,        \* <<>> for None, <<t>> otherwise
    data_rate,             \* [num, den], samples per second
    is_saving,
    frame_index,
    filename_counter,
    start_save_button,     \* enabled?
    stop_save_button,      \* enabled?
    timer_active,          \* self.timer running
    time_result,           \* text of the status pane
    samples_per_window,    \* 0 before the first render sets the attribute
    save_calls,            \* calls of db.save_timeview_message, in order
    consumed,              \* history: [time, n] of each batch consumed
    sessions,              \* history: recording sessions started
    epoch                  \* history: see FreshEpoch

feature_vars ==
    <<mqtt_tag, time_view_buffers, time_view_timestamps, last_data_time,
      data_rate, is_saving, frame_index, filename_counter,
      start_save_button, stop_save_button, timer_active, time_result,
      samples_per_window, save_calls, consumed, sessions, epoch>>

VARIABLES
    handler_running,       \* MQTTHandler.running
    worker_running,        \* MQTTWorker.running
    subscribed_topics,     \* MQTTWorker.subscribed_topics
    main_pc,               \* main thread: "idle" or its place in stop
    worker_pc,             \* worker thread: "off" (no thread) or its place
    attempt,               \* connect_with_retry: local attempt
    round_from,            \* connect_with_retry: "start" or "timer" called it
    quit_requested,        \* thread.quit() called since thread.start()
    retry_timers,          \* QTimer.singleShot calls not yet served
    queue,                 \* signals queued to the main thread, in order
    loop_running,          \* the network thread exists
    link,                  \* "none", "pending" (CONNACK awaited) or "up"
    net_pc,                \* network thread: "idle" or "subscribing"
    net_tags,              \* subscribe_to_topics: the list tags
    net_todo,              \* subscribe_to_topics: the part not yet visited
    broker_topics,         \* topics the broker holds for this connection
    byteorder,             \* sys.byteorder of the machine
    inbound,               \* history: inbound messages so far
    round,                 \* history: the current or last round
    starts,                \* history: thread starts so far
    reconnects,            \* history: reconnections so far
    worker_starts,         \* history: starts that set running
    stopped_count,         \* history: emissions of stopped
    after_stopped,         \* history: stopped emitted, no start since
    subscribe_count,       \* history: client.subscribe calls per topic
                           \*   since running was last set
    subscription_writers,  \* history: who changed subscribed_topics
    outcome                \* history: what on_message did with the last
                           \*   message: "emitted", "dropped", "refused"

worker_vars ==
    <<handler_running, worker_running, subscribed_topics,
      main_pc, worker_pc, attempt, round_from, quit_requested, retry_timers,
      queue, loop_running, link, net_pc, net_tags, net_todo, broker_topics,
      byteorder, inbound, round, starts,
      reconnects, worker_starts, stopped_count, after_stopped,
      subscribe_count, subscription_writers, outcome>>

VARIABLES
    window_values,         \* the list handed to generate_y_ticks
    yticks                 \* the y ticks of the axis, <<>> before any is set

axis_vars == <<window_values, yticks>>

vars == <<feature_vars, worker_vars, axis_vars>>

\* f"data{self.filename_counter}"
Filename(n) == <<"data", n>>

\* datetime.isoformat()
IsoFormat(t) == <<"iso", t>>

\* History only: start is the number of batches consumed when the buffers
\* were last emptied, intact says that their capacity has not changed since.
FreshEpoch(m) == [start |-> m, intact |-> TRUE]

\* the float 1.0
RateOne == [num |-> 1, den |-> 1]
RatePositive(r) == r.num > 0
\* int(rate * window_size * 2) with window_size = 1.0
RateTimesTwoFloor(r) == (2 * r.num) \div r.den

ByteOrders == {"little", "big"}

\* history of one connect_with_retry round
NoRound == [attempts |-> 0, failures |-> 0, connected |-> 0, failed |-> 0,
            active |-> FALSE, started_running |-> FALSE]

\* MQTTHandler.__init__ and MQTTWorker.__init__ on a machine of byte order
\* order
WorkerInit(order) ==
    /\ handler_running = FALSE
    /\ worker_running = FALSE
    /\ subscribed_topics = {}
    /\ main_pc = "idle"
    /\ worker_pc = "off"
    /\ attempt = 0
    /\ round_from = "start"
    /\ quit_requested = FALSE
    /\ retry_timers = 0
    /\ queue = <<>>
    /\ loop_running = FALSE
    /\ link = "none"
    /\ net_pc = "idle"
    /\ net_tags = <<>>
    /\ net_todo = <<>>
    /\ broker_topics = {}
    /\ byteorder = order
    /\ inbound = 0
    /\ round = NoRound
    /\ starts = 0
    /\ reconnects = 0
    /\ worker_starts = 0
    /\ stopped_count = 0
    /\ after_stopped = FALSE
    /\ subscribe_count = [t \in Tags |-> 0]
    /\ subscription_writers = {}
    /\ outcome = "none"

\* The fields as __init__ sets them (lines 93-108).  For a project that has
\* tags, initUI then calls setup_time_view_plot on the first one (line 188):
\* that call is a SwitchTag step.
FeatureInit ==
    /\ mqtt_tag = None
    /\ time_view_buffers =
           [i \in 1..4 |-> [items |-> <<>>, maxlen |-> initial_buffer_size]]
    /\ time_view_timestamps = [items |-> <<>>, maxlen |-> initial_buffer_size * 4]
    /\ last_data_time = <<>>
    /\ data_rate = RateOne
    /\ is_saving = FALSE
    /\ frame_index = 0
    /\ filename_counter = 1
    /\ start_save_button = TRUE
    /\ stop_save_button = FALSE
    /\ timer_active = FALSE
    /\ time_result = "Select a tag to start real-time plotting."
    /\ samples_per_window = 0
    /\ save_calls = <<>>
    /\ consumed = <<>>
    /\ sessions = <<>>
    /\ epoch = FreshEpoch(0)

\* an axis that no render has drawn on
AxisInit ==
    /\ window_values = <<>>
    /\ yticks = <<>>

\* the feature, with a handler that is never started
Init == FeatureInit /\ WorkerInit("little") /\ AxisInit

\* ---------------------------------------------------------------- recording
\* mutant: only the placeholder is rejected, an unset tag passes
NoValidTag_PlaceholderOnly(tag) == tag = NoTagsAvailable

\* not self.mqtt_tag or self.mqtt_tag == "No Tags Available"
NoValidTag(tag) == tag = None \/ tag = "" \/ tag = NoTagsAvailable

\* the session history after the open session, if any, ends for reason why
CloseSession(ss, saving, why) ==
    IF saving /\ ss # <<>>
    THEN [ss EXCEPT ![Len(ss)].ended = why]
    ELSE ss

\* clicked of start_save_button (line 152): a disabled button sends nothing
start_saving ==
    /\ start_save_button
    /\ IF NoValidTag(mqtt_tag)
       THEN /\ time_result' = "Error: Please select a valid tag!"
            /\ UNCHANGED <<is_saving, frame_index, start_save_button,
                           stop_save_button, sessions>>
       ELSE /\ Len(sessions) < MaxSessions
            /\ is_saving' = TRUE
            /\ frame_index' = 0
            /\ start_save_button' = FALSE
            /\ stop_save_button' = TRUE
            /\ time_result' = "Started saving data"
            /\ sessions' = Append(sessions,
                   [name |-> Filename(filename_counter), ended |-> "open"])
    /\ UNCHANGED <<mqtt_tag, time_view_buffers, time_view_timestamps,
                   last_data_time, data_rate, filename_counter, timer_active,
                   save_calls, consumed, epoch>>
    /\ UNCHANGED <<samples_per_window, worker_vars, axis_vars>>

\* mutant: a session that wrote no frame keeps its filename for the next one
stop_saving_KeepsCounterWhenEmpty ==
    /\ stop_save_button
    /\ is_saving' = FALSE
    /\ start_save_button' = TRUE
    /\ stop_save_button' = FALSE
    /\ filename_counter' =
           IF frame_index > 0 THEN filename_counter + 1 ELSE filename_counter
    /\ time_result' = "Stopped saving data"
    /\ sessions' = CloseSession(sessions, is_saving, "stop")
    /\ UNCHANGED <<mqtt_tag, time_view_buffers, time_view_timestamps,
                   last_data_time, data_rate, frame_index, timer_active,
                   save_calls, consumed, epoch>>
    /\ UNCHANGED <<samples_per_window, worker_vars, axis_vars>>

\* clicked of stop_save_button (line 156)
stop_saving ==
    /\ stop_save_button
    /\ is_saving' = FALSE
    /\ start_save_button' = TRUE
    /\ stop_save_button' = FALSE
    /\ filename_counter' = filename_counter + 1
    /\ time_result' = "Stopped saving data"
    /\ sessions' = CloseSession(sessions, is_saving, "stop")
    /\ UNCHANGED <<mqtt_tag, time_view_buffers, time_view_timestamps,
                   last_data_time, data_rate, frame_index, timer_active,
                   save_calls, consumed, epoch>>
    /\ UNCHANGED <<samples_per_window, worker_vars, axis_vars>>

\* ---------------------------------------------------------------- tag switch
setup_time_view_plot(tag_name) ==
    IF project_name = "" \/ tag_name = "" \/ tag_name = NoTagsAvailable
    THEN /\ time_result' = "No project or valid tag selected for Time View."
         /\ UNCHANGED <<mqtt_tag, time_view_buffers, time_view_timestamps,
                        last_data_time, data_rate, is_saving, frame_index,
                        filename_counter, start_save_button, stop_save_button,
                        timer_active, save_calls, consumed, sessions, epoch>>
         /\ UNCHANGED <<samples_per_window, worker_vars, axis_vars>>
    ELSE /\ UNCHANGED <<samples_per_window, worker_vars, axis_vars>>
         /\ mqtt_tag' = tag_name
         /\ time_view_buffers' =
                [i \in 1..4 |-> DequeClear(time_view_buffers[i])]
         /\ time_view_timestamps' = DequeClear(time_view_timestamps)
         /\ last_data_time' = <<>>
         /\ data_rate' = RateOne
         /\ is_saving' = FALSE
         /\ start_save_button' = TRUE
         /\ stop_save_button' = FALSE
         /\ frame_index' = 0
         /\ timer_active' = TRUE
         /\ time_result' = "Plotting real-time data"
         /\ sessions' = CloseSession(sessions, is_saving, "switch")
         /\ epoch' = FreshEpoch(Len(consumed))
         /\ UNCHANGED <<filename_counter, save_calls, consumed>>

\* ---------------------------------------------------------------- ingestion
\* lines 284-289: one iteration of the loop, on st = [bufs, ts]
StoreGroup(st, values, timestamp, i) ==
    IF i + 3 < Len(values)
    THEN [bufs |-> [c \in 1..4 |-> DequeAppend(st.bufs[c], values[i + c])],
          ts   |-> DequeExtend(st.ts, [k \in 1..4 |-> timestamp])]
    ELSE st

\* for i in range(i, stop, 4)
RECURSIVE StoreLoop(_, _, _, _, _)
StoreLoop(st, values, timestamp, i, stop) ==
    IF i >= stop THEN st
    ELSE StoreLoop(StoreGroup(st, values, timestamp, i), values, timestamp,
                   i + 4, stop)

\* mutant: the loop runs over the whole batch
StoreValues_NoLimit(bufs, ts, values, timestamp) ==
    StoreLoop([bufs |-> bufs, ts |-> ts], values, timestamp, 0, Len(values))

\* lines 282-289; values[i + c] above is the 1-based values[i + c - 1] of Python
StoreValues(bufs, ts, values, timestamp) ==
    StoreLoop([bufs |-> bufs, ts |-> ts], values, timestamp, 0,
              Min(Len(values), MaxGroups * 4))

\* mutant: the frame is named after the counter's next value
BuildFrame_NextName(tag, counter, index, rate, values, timestamp) ==
    [project_name     |-> project_name,
     topic            |-> tag,
     filename         |-> Filename(counter + 1),
     frameIndex       |-> index,
     numberOfChannels |-> 4,
     samplingRate     |-> IF RatePositive(rate) THEN <<rate>> ELSE <<>>,
     samplingSize     |-> 16,
     messageFrequency |-> IF RatePositive(rate)
                          THEN <<[num |-> rate.num, den |-> rate.den * 4]>>
                          ELSE <<>>,
     message          |-> SubSeq(values, 1, Min(Len(values), MaxGroups * 4)),
     createdAt        |-> timestamp]

\* lines 297-313
BuildFrame(tag, counter, index, rate, values, timestamp) ==
    [project_name     |-> project_name,
     topic            |-> tag,
     filename         |-> Filename(counter),
     frameIndex       |-> index,
     numberOfChannels |-> 4,
     samplingRate     |-> IF RatePositive(rate) THEN <<rate>> ELSE <<>>,
     samplingSize     |-> 16,
     messageFrequency |-> IF RatePositive(rate)
                          THEN <<[num |-> rate.num, den |-> rate.den * 4]>>
                          ELSE <<>>,
     message          |-> SubSeq(values, 1, Min(Len(values), MaxGroups * 4)),
     createdAt        |-> timestamp]

\* mutant: the frame index advances whether or not the frame was stored
SaveOutcome_AlwaysIncrement(success, saving, index) ==
    IF success
    THEN [is_saving |-> saving, frame_index |-> index + 1,
          time_result |-> "Saved frame"]
    ELSE [is_saving |-> saving, frame_index |-> index + 1,
          time_result |-> "Error saving data"]

\* mutant: a failed write ends the session
SaveOutcome_StopOnFailure(success, saving, index) ==
    IF success
    THEN [is_saving |-> saving, frame_index |-> index + 1,
          time_result |-> "Saved frame"]
    ELSE [is_saving |-> FALSE, frame_index |-> index,
          time_result |-> "Error saving data"]

\* lines 315-321: what the answer of the storage collaborator does to the
\* recording state
SaveOutcome(success, saving, index) ==
    IF success
    THEN [is_saving |-> saving, frame_index |-> index + 1,
          time_result |-> "Saved frame"]
    ELSE [is_saving |-> saving, frame_index |-> index,
          time_result |-> "Error saving data"]

\* lines 280-323; success is the answer of db.save_timeview_message
split_and_store_values(values, timestamp, success) ==
    LET st == StoreValues(time_view_buffers, time_view_timestamps, values,
                          timestamp)
    IN  /\ time_view_buffers' = st.bufs
        /\ time_view_timestamps' = st.ts
        /\ IF is_saving
           THEN LET out == SaveOutcome(success, is_saving, frame_index)
                IN  /\ save_calls' = Append(save_calls,
                           [frame   |-> BuildFrame(mqtt_tag, filename_counter,
                                           frame_index, data_rate', values,
                                           timestamp),
                            success |-> success,
                            session |-> Len(sessions)])
                    /\ is_saving' = out.is_saving
                    /\ frame_index' = out.frame_index
                    /\ time_result' = out.time_result
           ELSE UNCHANGED <<save_calls, is_saving, frame_index, time_result>>

\* mutant: the new estimate is averaged with the old rate
NextRate_Averaged(rate, last, n, current_time) ==
    IF last # <<>> /\ current_time - last[1] > 0
    THEN [num |-> rate.num * 4 * (current_time - last[1])
                    + n * TicksPerSec * rate.den,
          den |-> 2 * rate.den * 4 * (current_time - last[1])]
    ELSE rate

\* lines 419-422: the rate after a batch of n values arriving at current_time
NextRate(rate, last, n, current_time) ==
    IF last # <<>> /\ current_time - last[1] > 0
    THEN [num |-> n * TicksPerSec, den |-> 4 * (current_time - last[1])]
    ELSE rate

\* mutant: the batch is consumed whatever its topic
on_data_received_body_AnyTag(tag_name, values, current_time, success) ==
    /\ data_rate' = NextRate(data_rate, last_data_time, Len(values),
                             current_time)
    /\ last_data_time' = <<current_time>>
    /\ split_and_store_values(values, IsoFormat(current_time), success)
    /\ consumed' = Append(consumed,
           [time |-> current_time, n |-> Len(values)])
    /\ UNCHANGED <<mqtt_tag, filename_counter, start_save_button,
                   stop_save_button, timer_active, sessions, epoch,
                   samples_per_window>>

\* lines 414-427: what the slot does to the fields of the feature
on_data_received_body(tag_name, values, current_time, success) ==
    IF tag_name # mqtt_tag
    THEN UNCHANGED feature_vars
    ELSE /\ data_rate' = NextRate(data_rate, last_data_time, Len(values),
                                  current_time)
         /\ last_data_time' = <<current_time>>
         /\ split_and_store_values(values, IsoFormat(current_time), success)
         /\ consumed' = Append(consumed,
                [time |-> current_time, n |-> Len(values)])
         /\ UNCHANGED <<mqtt_tag, filename_counter, start_save_button,
                        stop_save_button, timer_active, sessions, epoch,
                        samples_per_window>>

\* the slot called with a batch that no queue of the handler carries
on_data_received(tag_name, values, current_time, success) ==
    /\ on_data_received_body(tag_name, values, current_time, success)
    /\ UNCHANGED <<worker_vars, axis_vars>>

\* ---------------------------------------------------------------- render
\* max(int(self.data_rate * window_size * 2), 100)
NewBufferSize(rate) == Max(RateTimesTwoFloor(rate), MinBufferSize)

\* mutant: the timestamp buffer gets the capacity of one channel
adjust_buffer_size_SameTsCapacity(st, rate) ==
    IF RatePositive(rate) /\ NewBufferSize(rate) # st.bufs[1].maxlen
    THEN [bufs |-> [c \in 1..4 |->
                       DequeNew(st.bufs[c].items, NewBufferSize(rate))],
          ts   |-> DequeNew(st.ts.items, NewBufferSize(rate))]
    ELSE st

\* mutant: the buffers grow with the rate and never shrink
adjust_buffer_size_GrowOnly(st, rate) ==
    IF RatePositive(rate) /\ NewBufferSize(rate) > st.bufs[1].maxlen
    THEN [bufs |-> [c \in 1..4 |->
                       DequeNew(st.bufs[c].items, NewBufferSize(rate))],
          ts   |-> DequeNew(st.ts.items, NewBufferSize(rate) * 4)]
    ELSE st

\* lines 325-333, on st = [bufs, ts]
adjust_buffer_size(st, rate) ==
    IF RatePositive(rate) /\ NewBufferSize(rate) # st.bufs[1].maxlen
    THEN [bufs |-> [c \in 1..4 |->
                       DequeNew(st.bufs[c].items, NewBufferSize(rate))],
          ts   |-> DequeNew(st.ts.items, NewBufferSize(rate) * 4)]
    ELSE st

\* int(self.data_rate * window_size) with window_size = 1.0
RateFloor(r) == r.num \div r.den

\* mutant: fewer than 2 samples are accepted as a window
SamplesPerWindow_NoLeast(current_buffer_size, rate) ==
    Min(current_buffer_size, RateFloor(rate))

\* lines 369-371
SamplesPerWindow(current_buffer_size, rate) ==
    Max(Min(current_buffer_size, RateFloor(rate)), 2)

\* xs[-n:] of Python, n > 0: the last n entries, all of them if there are
\* fewer
Trailing(xs, n) == SubSeq(xs, Max(Len(xs) - n, 0) + 1, Len(xs))

\* xs[::4] of Python: entries 0, 4, 8, ... of xs
EveryFourth(xs) == [k \in 1..((Len(xs) + 3) \div 4) |-> xs[4 * k - 3]]

\* line 373: list(self.time_view_buffers[i])[-self.samples_per_window:]
WindowValues(buf, n) == Trailing(buf.items, n)

\* line 374: list(self.time_view_timestamps)[-self.samples_per_window * 4:][::4]
WindowTimestamps(ts, n) == EveryFourth(Trailing(ts.items, n * 4))

\* timeout of self.timer (line 98), started by setup_time_view_plot; the
\* windows are drawn after the resize (lines 367-412) with the length of the
\* buffer before it; the loop assigns samples_per_window the same value for
\* every channel
update_time_view_plot ==
    /\ timer_active
    /\ IF project_name = "" \/ mqtt_tag = None \/ mqtt_tag = ""
       THEN /\ time_result' = "No project or tag selected for Time View."
            /\ UNCHANGED <<time_view_buffers, time_view_timestamps, epoch,
                           samples_per_window>>
       ELSE IF Len(time_view_buffers[1].items) < 2
       THEN /\ time_result' = "Waiting for data"
            /\ UNCHANGED <<time_view_buffers, time_view_timestamps, epoch,
                           samples_per_window>>
       ELSE LET current_buffer_size == Len(time_view_buffers[1].items)
                st == adjust_buffer_size(
                          [bufs |-> time_view_buffers,
                           ts   |-> time_view_timestamps], data_rate)
            IN  /\ time_view_buffers' = st.bufs
                /\ time_view_timestamps' = st.ts
                /\ samples_per_window' =
                       SamplesPerWindow(current_buffer_size, data_rate)
                /\ time_result' = "Plotting"
                /\ epoch' = IF st.bufs[1].maxlen = time_view_buffers[1].maxlen
                             THEN epoch
                             ELSE [epoch EXCEPT !.intact = FALSE]
    /\ UNCHANGED <<mqtt_tag, last_data_time, data_rate, is_saving, frame_index,
                   filename_counter, start_save_button, stop_save_button,
                   timer_active, save_calls, consumed, sessions>>
    /\ UNCHANGED <<worker_vars, axis_vars>>

\* ---------------------------------------------------------------- producer
\* max_retries = 3 (mqtthandler.py:50)
max_retries == 3

\* what a thread is to the two execution contexts: the worker thread and the
\* network thread carry the transport, the main thread is the consumer's
Context(thread) == IF thread = "main" THEN "consumer" ELSE "transport"

\* the signals of MQTTWorker received by MQTTHandler (lines 137-140)
ConnectedEvent == [sig |-> "connected", tag_name |-> "", values |-> <<>>]
ConnectionFailedEvent ==
    [sig |-> "connection_failed", tag_name |-> "", values |-> <<>>]
DataEvent(tag_name, values) ==
    [sig |-> "data_received", tag_name |-> tag_name, values |-> values]

\* raw payloads of inbound messages: empty, of odd length, of one sample and
\* of two samples whose bytes differ
Payloads == {<<>>, <<7>>, <<1, 2>>, <<0, 255, 255, 0>>, <<1, 2, 3>>}

\* a payload of one sample
OnePayload == <<1, 2>>

\* mutant: the decoder reads network byte order on every machine
Unpack_NetworkOrder(order, payload) ==
    [k \in 1..(Len(payload) \div 2) |->
        256 * payload[2 * k - 1] + payload[2 * k]]

\* struct.unpack(f"{n}H", payload): native byte order, 2 bytes a value
Unpack(order, payload) ==
    [k \in 1..(Len(payload) \div 2) |->
        IF order = "little"
        THEN payload[2 * k - 1] + 256 * payload[2 * k]
        ELSE 256 * payload[2 * k - 1] + payload[2 * k]]

\* struct.pack(f"{n}H", *values) of the publisher, values in 0..65535
Pack(order, values) ==
    [i \in 1..(2 * Len(values)) |->
        LET v == values[(i + 1) \div 2]
        IN  IF (i % 2 = 1) = (order = "little")
            THEN v % 256
            ELSE v \div 256]

\* mutant: a payload of odd length is decoded up to its last whole sample
Decode_TruncateOdd(order, payload) ==
    IF Unpack(order, payload) = <<>>
    THEN [values |-> <<>>, error |-> "Empty or invalid payload"]
    ELSE [values |-> Unpack(order, payload), error |-> ""]

\* lines 99-105: the samples, or the error raised
Decode(order, payload) ==
    IF Len(payload) % 2 # 0
    THEN [values |-> <<>>,
          error  |-> "Payload size is not a multiple of 2, cannot unpack as uint16_t"]
    ELSE IF Unpack(order, payload) = <<>>
    THEN [values |-> <<>>, error |-> "Empty or invalid payload"]
    ELSE [values |-> Unpack(order, payload), error |-> ""]

\* mutant: the signal is emitted whatever the database answered
Emits_IgnoreStore(decode_ok, success) == decode_ok

\* lines 110-113: data_received is emitted for a decoded message that
\* db.update_tag_value stored
Emits(decode_ok, success) == decode_ok /\ success

\* what tags_collection.find can return: the tags the project has at the
\* moment of the call (none, one of them, all of them)
TagLists == {<<>>, <<"tagA">>, <<"tagA", "tagB">>}

\* where connect_with_retry returns to: MQTTWorker.start goes on to
\* loop_start, the timer's call returns to the event loop of the thread
RoundReturn == IF round_from = "start" THEN "loop_start" ELSE "exec"

NewRound ==
    [attempts |-> 0, failures |-> 0, connected |-> 0, failed |-> 0,
     active |-> TRUE, started_running |-> worker_running]

\* -------- main thread

\* MQTTHandler.start (lines 143-148) when not running: thread.start()
handler_start ==
    /\ main_pc = "idle"
    /\ ~handler_running
    /\ starts < MaxStarts
    /\ worker_pc' = IF worker_pc = "off" THEN "started" ELSE worker_pc
    /\ quit_requested' = FALSE
    /\ handler_running' = TRUE
    /\ starts' = starts + 1
    /\ after_stopped' = FALSE
    /\ UNCHANGED <<worker_running, subscribed_topics, main_pc, attempt,
                   round_from, retry_timers, queue, loop_running, link,
                   net_pc, net_tags, net_todo, broker_topics, byteorder,
                   inbound, round, reconnects, worker_starts, stopped_count,
                   subscribe_count, subscription_writers, outcome>>
    /\ UNCHANGED <<feature_vars, axis_vars>>

\* MQTTHandler.stop (lines 150-153) when running: calls worker.stop()
handler_stop ==
    /\ main_pc = "idle"
    /\ handler_running
    /\ main_pc' = "worker_stop"
    /\ UNCHANGED <<handler_running, worker_running, subscribed_topics,
                   worker_pc, attempt, round_from, quit_requested,
                   retry_timers, queue, loop_running, link, net_pc, net_tags,
                   net_todo, broker_topics, byteorder, inbound, round, starts,
                   reconnects, worker_starts, stopped_count, after_stopped,
                   subscribe_count, subscription_writers, outcome>>
    /\ UNCHANGED <<feature_vars, axis_vars>>

\* mutant: stop does not look at running
worker_stop_AlwaysStops ==
    /\ main_pc = "worker_stop"
    /\ worker_running' = FALSE
    /\ main_pc' = "loop_stop"
    /\ subscribe_count' = [t \in Tags |-> 0]
    /\ UNCHANGED <<handler_running, subscribed_topics, worker_pc, attempt,
                   round_from, quit_requested, retry_timers, queue,
                   loop_running, link, net_pc, net_tags, net_todo,
                   broker_topics, byteorder, inbound, round, starts,
                   reconnects, worker_starts, stopped_count, after_stopped,
                   subscription_writers, outcome>>
    /\ UNCHANGED <<feature_vars, axis_vars>>

\* MQTTWorker.stop, lines 40-41, in the main thread
worker_stop ==
    /\ main_pc = "worker_stop"
    /\ worker_running' = FALSE
    /\ main_pc' = IF worker_running THEN "loop_stop" ELSE "quit"
    /\ subscribe_count' = [t \in Tags |-> 0]
    /\ UNCHANGED <<handler_running, subscribed_topics, worker_pc, attempt,
                   round_from, quit_requested, retry_timers, queue,
                   loop_running, link, net_pc, net_tags, net_todo,
                   broker_topics, byteorder, inbound, round, starts,
                   reconnects, worker_starts, stopped_count, after_stopped,
                   subscription_writers, outcome>>
    /\ UNCHANGED <<feature_vars, axis_vars>>

\* line 42: client.loop_stop() joins the network thread, which first
\* finishes the callback it is in
worker_stop_loop_stop ==
    /\ main_pc = "loop_stop"
    /\ net_pc = "idle"
    /\ loop_running' = FALSE
    /\ main_pc' = "disconnect"
    /\ UNCHANGED <<handler_running, worker_running, subscribed_topics,
                   worker_pc, attempt, round_from, quit_requested,
                   retry_timers, queue, link, net_pc, net_tags, net_todo,
                   broker_topics, byteorder, inbound, round, starts,
                   reconnects, worker_starts, stopped_count, after_stopped,
                   subscribe_count, subscription_writers, outcome>>
    /\ UNCHANGED <<feature_vars, axis_vars>>

\* line 43: client.disconnect()
worker_stop_disconnect ==
    /\ main_pc = "disconnect"
    /\ link' = "none"
    /\ broker_topics' = {}
    /\ main_pc' = "clear"
    /\ UNCHANGED <<handler_running, worker_running, subscribed_topics,
                   worker_pc, attempt, round_from, quit_requested,
                   retry_timers, queue, loop_running, net_pc, net_tags,
                   net_todo, byteorder, inbound, round, starts, reconnects,
                   worker_starts, stopped_count, after_stopped,
                   subscribe_count, subscription_writers, outcome>>
    /\ UNCHANGED <<feature_vars, axis_vars>>

\* line 44: subscribed_topics.clear(); emptying an empty set is not counted
\* as a change
worker_stop_clear ==
    /\ main_pc = "clear"
    /\ subscribed_topics' = {}
    /\ subscription_writers' = IF subscribed_topics = {} THEN subscription_writers
                                ELSE subscription_writers \cup {Context("main")}
    /\ main_pc' = "emit"
    /\ UNCHANGED <<handler_running, worker_running, worker_pc, attempt,
                   round_from, quit_requested, retry_timers, queue,
                   loop_running, link, net_pc, net_tags, net_todo,
                   broker_topics, byteorder, inbound, round, starts,
                   reconnects, worker_starts, stopped_count, after_stopped,
                   subscribe_count, outcome>>
    /\ UNCHANGED <<feature_vars, axis_vars>>

\* line 46: stopped.emit(); emitter and receiver are in the main thread, so
\* on_worker_stopped (lines 169-171) runs at once
worker_stop_emit ==
    /\ main_pc = "emit"
    /\ stopped_count' = stopped_count + 1
    /\ after_stopped' = TRUE
    /\ handler_running' = FALSE
    /\ main_pc' = "quit"
    /\ UNCHANGED <<worker_running, subscribed_topics, worker_pc, attempt,
                   round_from, quit_requested, retry_timers, queue,
                   loop_running, link, net_pc, net_tags, net_todo,
                   broker_topics, byteorder, inbound, round, starts,
                   reconnects, worker_starts, subscribe_count,
                   subscription_writers, outcome>>
    /\ UNCHANGED <<feature_vars, axis_vars>>

\* line 154: thread.quit()
handler_stop_quit ==
    /\ main_pc = "quit"
    /\ quit_requested' = TRUE
    /\ main_pc' = "wait"
    /\ UNCHANGED <<handler_running, worker_running, subscribed_topics,
                   worker_pc, attempt, round_from, retry_timers, queue,
                   loop_running, link, net_pc, net_tags, net_todo,
                   broker_topics, byteorder, inbound, round, starts,
                   reconnects, worker_starts, stopped_count, after_stopped,
                   subscribe_count, subscription_writers, outcome>>
    /\ UNCHANGED <<feature_vars, axis_vars>>

\* lines 155-156: thread.wait() returns when the worker thread has ended
handler_stop_wait ==
    /\ main_pc = "wait"
    /\ worker_pc = "off"
    /\ handler_running' = FALSE
    /\ main_pc' = "idle"
    /\ UNCHANGED <<worker_running, subscribed_topics, worker_pc, attempt,
                   round_from, quit_requested, retry_timers, queue,
                   loop_running, link, net_pc, net_tags, net_todo,
                   broker_topics, byteorder, inbound, round, starts,
                   reconnects, worker_starts, stopped_count, after_stopped,
                   subscribe_count, subscription_writers, outcome>>
    /\ UNCHANGED <<feature_vars, axis_vars>>

\* lines 159-161, for the connected signal at the head of the queue: the
\* status is passed on
on_connected ==
    /\ main_pc = "idle"
    /\ queue # <<>>
    /\ Head(queue).sig = "connected"
    /\ queue' = Tail(queue)
    /\ UNCHANGED <<handler_running, worker_running, subscribed_topics,
                   main_pc, worker_pc, attempt, round_from, quit_requested,
                   retry_timers, loop_running, link, net_pc, net_tags,
                   net_todo, broker_topics, byteorder, inbound, round, starts,
                   reconnects, worker_starts, stopped_count, after_stopped,
                   subscribe_count, subscription_writers, outcome>>
    /\ UNCHANGED <<feature_vars, axis_vars>>

\* mutant: the failure is passed on and no retry is scheduled
on_connection_failed_NoRetry ==
    /\ main_pc = "idle"
    /\ queue # <<>>
    /\ Head(queue).sig = "connection_failed"
    /\ queue' = Tail(queue)
    /\ UNCHANGED <<handler_running, worker_running, subscribed_topics,
                   main_pc, worker_pc, attempt, round_from, quit_requested,
                   retry_timers, loop_running, link, net_pc, net_tags,
                   net_todo, broker_topics, byteorder, inbound, round, starts,
                   reconnects, worker_starts, stopped_count, after_stopped,
                   subscribe_count, subscription_writers, outcome>>
    /\ UNCHANGED <<feature_vars, axis_vars>>

\* lines 163-167: the status is passed on, and
\* QTimer.singleShot(5000, connect_with_retry)
on_connection_failed ==
    /\ main_pc = "idle"
    /\ queue # <<>>
    /\ Head(queue).sig = "connection_failed"
    /\ queue' = Tail(queue)
    /\ retry_timers' = retry_timers + 1
    /\ UNCHANGED <<handler_running, worker_running, subscribed_topics,
                   main_pc, worker_pc, attempt, round_from, quit_requested,
                   loop_running, link, net_pc, net_tags, net_todo,
                   broker_topics, byteorder, inbound, round, starts,
                   reconnects, worker_starts, stopped_count, after_stopped,
                   subscribe_count, subscription_writers, outcome>>
    /\ UNCHANGED <<feature_vars, axis_vars>>

\* line 137: the handler passes the worker's data_received on
data_received ==
    /\ main_pc = "idle"
    /\ queue # <<>>
    /\ Head(queue).sig = "data_received"
    /\ queue' = Tail(queue)
    /\ UNCHANGED <<handler_running, worker_running, subscribed_topics,
                   main_pc, worker_pc, attempt, round_from, quit_requested,
                   retry_timers, loop_running, link, net_pc, net_tags,
                   net_todo, broker_topics, byteorder, inbound, round, starts,
                   reconnects, worker_starts, stopped_count, after_stopped,
                   subscribe_count, subscription_writers, outcome>>
    /\ UNCHANGED <<feature_vars, axis_vars>>

\* -------- worker thread

\* thread.started calls MQTTWorker.start (line 141); lines 32-34 up to the
\* call of connect_with_retry
worker_start ==
    /\ worker_pc = "started"
    /\ worker_running' = TRUE
    /\ worker_pc' = IF worker_running THEN "exec" ELSE "retry_loop"
    /\ attempt' = IF worker_running THEN attempt ELSE 0
    /\ round_from' = IF worker_running THEN round_from ELSE "start"
    /\ round' = IF worker_running THEN round ELSE NewRound
    /\ worker_starts' = IF worker_running THEN worker_starts ELSE worker_starts + 1
    /\ subscribe_count' = IF worker_running THEN subscribe_count
                           ELSE [t \in Tags |-> 0]
    /\ UNCHANGED <<handler_running, subscribed_topics, main_pc,
                   quit_requested, retry_timers, queue, loop_running, link,
                   net_pc, net_tags, net_todo, broker_topics, byteorder,
                   inbound, starts, reconnects, stopped_count, after_stopped,
                   subscription_writers, outcome>>
    /\ UNCHANGED <<feature_vars, axis_vars>>

\* line 52: while self.running and attempt < max_retries
connect_with_retry_loop ==
    /\ worker_pc = "retry_loop"
    /\ worker_pc' = IF worker_running /\ attempt < max_retries
                     THEN "connecting" ELSE RoundReturn
    /\ round' = IF worker_running /\ attempt < max_retries
                 THEN [round EXCEPT !.attempts = @ + 1]
                 ELSE [round EXCEPT !.active = FALSE]
    /\ UNCHANGED <<handler_running, worker_running, subscribed_topics,
                   main_pc, attempt, round_from, quit_requested, retry_timers,
                   queue, loop_running, link, net_pc, net_tags, net_todo,
                   broker_topics, byteorder, inbound, starts, reconnects,
                   worker_starts, stopped_count, after_stopped,
                   subscribe_count, subscription_writers, outcome>>
    /\ UNCHANGED <<feature_vars, axis_vars>>

\* mutant: every failed attempt is reported with connection_failed
connect_with_retry_connect_ReportsEachFailure(ok) ==
    /\ worker_pc = "connecting"
    /\ link' = IF ok THEN "pending" ELSE "none"
    /\ broker_topics' = {}
    /\ attempt' = IF ok THEN attempt ELSE attempt + 1
    /\ queue' = IF ok THEN Append(queue, ConnectedEvent)
                 ELSE Append(queue, ConnectionFailedEvent)
    /\ worker_pc' = IF ~ok /\ attempt + 1 < max_retries
                     THEN "sleeping" ELSE RoundReturn
    /\ round' = IF ok
                 THEN [round EXCEPT !.connected = @ + 1, !.active = FALSE]
                 ELSE IF attempt + 1 < max_retries
                 THEN [round EXCEPT !.failures = @ + 1, !.failed = @ + 1]
                 ELSE [round EXCEPT !.failures = @ + 1, !.failed = @ + 1,
                                    !.active = FALSE]
    /\ UNCHANGED <<handler_running, worker_running, subscribed_topics,
                   main_pc, round_from, quit_requested, retry_timers,
                   loop_running, net_pc, net_tags, net_todo, byteorder,
                   inbound, starts, reconnects, worker_starts, stopped_count,
                   after_stopped, subscribe_count, subscription_writers,
                   outcome>>
    /\ UNCHANGED <<feature_vars, axis_vars>>

\* lines 53-65: client.connect returns (ok) or raises
connect_with_retry_connect(ok) ==
    /\ worker_pc = "connecting"
    /\ link' = IF ok THEN "pending" ELSE "none"
    /\ broker_topics' = {}
    /\ attempt' = IF ok THEN attempt ELSE attempt + 1
    /\ queue' = IF ok THEN Append(queue, ConnectedEvent)
                 ELSE IF attempt + 1 < max_retries THEN queue
                 ELSE Append(queue, ConnectionFailedEvent)
    /\ worker_pc' = IF ~ok /\ attempt + 1 < max_retries
                     THEN "sleeping" ELSE RoundReturn
    /\ round' = IF ok
                 THEN [round EXCEPT !.connected = @ + 1, !.active = FALSE]
                 ELSE IF attempt + 1 < max_retries
                 THEN [round EXCEPT !.failures = @ + 1]
                 ELSE [round EXCEPT !.failures = @ + 1, !.failed = @ + 1,
                                    !.active = FALSE]
    /\ UNCHANGED <<handler_running, worker_running, subscribed_topics,
                   main_pc, round_from, quit_requested, retry_timers,
                   loop_running, net_pc, net_tags, net_todo, byteorder,
                   inbound, starts, reconnects, worker_starts, stopped_count,
                   after_stopped, subscribe_count, subscription_writers,
                   outcome>>
    /\ UNCHANGED <<feature_vars, axis_vars>>

\* line 62: time.sleep(self.retry_interval) returns
connect_with_retry_sleep ==
    /\ worker_pc = "sleeping"
    /\ worker_pc' = "retry_loop"
    /\ UNCHANGED <<handler_running, worker_running, subscribed_topics,
                   main_pc, attempt, round_from, quit_requested, retry_timers,
                   queue, loop_running, link, net_pc, net_tags, net_todo,
                   broker_topics, byteorder, inbound, round, starts,
                   reconnects, worker_starts, stopped_count, after_stopped,
                   subscribe_count, subscription_writers, outcome>>
    /\ UNCHANGED <<feature_vars, axis_vars>>

\* line 35: client.loop_start()
worker_start_loop_start ==
    /\ worker_pc = "loop_start"
    /\ loop_running' = TRUE
    /\ worker_pc' = "exec"
    /\ UNCHANGED <<handler_running, worker_running, subscribed_topics,
                   main_pc, attempt, round_from, quit_requested, retry_timers,
                   queue, link, net_pc, net_tags, net_todo, broker_topics,
                   byteorder, inbound, round, starts, reconnects,
                   worker_starts, stopped_count, after_stopped,
                   subscribe_count, subscription_writers, outcome>>
    /\ UNCHANGED <<feature_vars, axis_vars>>

\* line 167: a timer is due; connect_with_retry is a method of the worker and
\* runs in its thread, when that thread is in its event loop
singleShot_connect_with_retry ==
    /\ worker_pc = "exec"
    /\ ~quit_requested
    /\ retry_timers > 0
    /\ retry_timers' = retry_timers - 1
    /\ worker_pc' = "retry_loop"
    /\ attempt' = 0
    /\ round_from' = "timer"
    /\ round' = NewRound
    /\ UNCHANGED <<handler_running, worker_running, subscribed_topics,
                   main_pc, quit_requested, queue, loop_running, link, net_pc,
                   net_tags, net_todo, broker_topics, byteorder, inbound,
                   starts, reconnects, worker_starts, stopped_count,
                   after_stopped, subscribe_count, subscription_writers,
                   outcome>>
    /\ UNCHANGED <<feature_vars, axis_vars>>

\* the event loop of the worker thread sees the quit of line 154
thread_finished ==
    /\ worker_pc = "exec"
    /\ quit_requested
    /\ worker_pc' = "off"
    /\ UNCHANGED <<handler_running, worker_running, subscribed_topics,
                   main_pc, attempt, round_from, quit_requested, retry_timers,
                   queue, loop_running, link, net_pc, net_tags, net_todo,
                   broker_topics, byteorder, inbound, round, starts,
                   reconnects, worker_starts, stopped_count, after_stopped,
                   subscribe_count, subscription_writers, outcome>>
    /\ UNCHANGED <<feature_vars, axis_vars>>

\* -------- network thread

\* lines 67-75, and of subscribe_to_topics line 79: tags is the list that
\* tags_collection.find returns at this moment
on_connect(rc, tags) ==
    /\ loop_running
    /\ link = "pending"
    /\ net_pc = "idle"
    /\ link' = IF rc = 0 THEN "up" ELSE "none"
    /\ net_pc' = IF rc = 0 THEN "subscribing" ELSE "idle"
    /\ net_tags' = IF rc = 0 THEN tags ELSE net_tags
    /\ net_todo' = IF rc = 0 THEN tags ELSE net_todo
    /\ queue' = IF rc = 0 THEN queue ELSE Append(queue, ConnectionFailedEvent)
    /\ UNCHANGED <<handler_running, worker_running, subscribed_topics,
                   main_pc, worker_pc, attempt, round_from, quit_requested,
                   retry_timers, loop_running, broker_topics, byteorder,
                   inbound, round, starts, reconnects, worker_starts,
                   stopped_count, after_stopped, subscribe_count,
                   subscription_writers, outcome>>
    /\ UNCHANGED <<feature_vars, axis_vars>>

\* lines 83-88, one tag of the list; and, the list done (or empty, lines
\* 80-82), line 72: connected.emit().  client.subscribe reaches the broker only
\* over a link that is up.
subscribe_to_topics ==
    /\ net_pc = "subscribing"
    /\ net_pc' = IF net_todo = <<>> THEN "idle" ELSE net_pc
    /\ queue' = IF net_todo = <<>> THEN Append(queue, ConnectedEvent) ELSE queue
    /\ net_todo' = IF net_todo = <<>> THEN net_todo ELSE Tail(net_todo)
    /\ net_tags' = IF net_todo = <<>> THEN <<>> ELSE net_tags
    /\ subscribed_topics' = IF net_todo = <<>> THEN subscribed_topics
                             ELSE subscribed_topics \cup {Head(net_todo)}
    /\ broker_topics' = IF net_todo # <<>> /\ Head(net_todo) \notin subscribed_topics
                            /\ link = "up"
                         THEN broker_topics \cup {Head(net_todo)}
                         ELSE broker_topics
    /\ subscribe_count' = IF net_todo # <<>> /\ Head(net_todo) \notin subscribed_topics
                              /\ worker_running
                           THEN [subscribe_count EXCEPT ![Head(net_todo)] = @ + 1]
                           ELSE subscribe_count
    /\ subscription_writers' = IF net_todo # <<>> /\ Head(net_todo) \notin subscribed_topics
                                THEN subscription_writers \cup {Context("network")}
                                ELSE subscription_writers
    /\ UNCHANGED <<handler_running, worker_running, main_pc, worker_pc,
                   attempt, round_from, quit_requested, retry_timers,
                   loop_running, link, byteorder, inbound, round, starts,
                   reconnects, worker_starts, stopped_count, after_stopped,
                   outcome>>
    /\ UNCHANGED <<feature_vars, axis_vars>>

\* lines 90-120: a message of a topic the broker holds; success is the
\* answer of db.update_tag_value (an exception of it counts as a refusal)
on_message(topic, payload, success) ==
    /\ loop_running
    /\ link = "up"
    /\ net_pc = "idle"
    /\ inbound < MaxInbound
    /\ topic \in broker_topics
    /\ queue' = IF Emits(Decode(byteorder, payload).error = "", success)
                 THEN Append(queue,
                         DataEvent(topic, Decode(byteorder, payload).values))
                 ELSE queue
    /\ outcome' = IF Decode(byteorder, payload).error # "" THEN "dropped"
                   ELSE IF Emits(TRUE, success) THEN "emitted" ELSE "refused"
    /\ inbound' = inbound + 1
    /\ UNCHANGED <<handler_running, worker_running, subscribed_topics,
                   main_pc, worker_pc, attempt, round_from, quit_requested,
                   retry_timers, loop_running, link, net_pc, net_tags,
                   net_todo, broker_topics, byteorder, round, starts,
                   reconnects, worker_starts, stopped_count, after_stopped,
                   subscribe_count, subscription_writers>>
    /\ UNCHANGED <<feature_vars, axis_vars>>

\* the link drops and the network loop (line 35) connects again by itself
connection_lost ==
    /\ loop_running
    /\ link = "up"
    /\ net_pc = "idle"
    /\ reconnects < MaxReconnects
    /\ link' = "pending"
    /\ broker_topics' = {}
    /\ reconnects' = reconnects + 1
    /\ UNCHANGED <<handler_running, worker_running, subscribed_topics,
                   main_pc, worker_pc, attempt, round_from, quit_requested,
                   retry_timers, queue, loop_running, net_pc, net_tags,
                   net_todo, byteorder, inbound, round, starts, worker_starts,
                   stopped_count, after_stopped, subscribe_count,
                   subscription_writers, outcome>>
    /\ UNCHANGED <<feature_vars, axis_vars>>

\* -------- the handler and its worker
\* The handler and its worker through starts, stops, retries and
\* reconnections; every message carries the one payload OnePayload and is
\* stored.
InitMqtt == FeatureInit /\ WorkerInit("little") /\ AxisInit

NextMqtt ==
    \/ handler_start
    \/ handler_stop
    \/ worker_stop
    \/ worker_stop_loop_stop
    \/ worker_stop_disconnect
    \/ worker_stop_clear
    \/ worker_stop_emit
    \/ handler_stop_quit
    \/ handler_stop_wait
    \/ on_connected
    \/ on_connection_failed
    \/ data_received
    \/ worker_start
    \/ connect_with_retry_loop
    \/ \E ok \in BOOLEAN : connect_with_retry_connect(ok)
    \/ connect_with_retry_sleep
    \/ worker_start_loop_start
    \/ singleShot_connect_with_retry
    \/ thread_finished
    \/ \E rc \in {0, 5}, tags \in TagLists : on_connect(rc, tags)
    \/ subscribe_to_topics
    \/ \E topic \in Tags : on_message(topic, OnePayload, TRUE)
    \/ connection_lost

SpecMqtt == InitMqtt /\ [][NextMqtt]_vars

\* The worker while the handler is not stopped, with payloads of every kind
\* on a machine of either byte order.
InitMsg ==
    /\ FeatureInit
    /\ \E order \in ByteOrders : WorkerInit(order)
    /\ AxisInit

NextMsg ==
    \/ handler_start
    \/ on_connected
    \/ on_connection_failed
    \/ data_received
    \/ worker_start
    \/ connect_with_retry_loop
    \/ \E ok \in BOOLEAN : connect_with_retry_connect(ok)
    \/ connect_with_retry_sleep
    \/ worker_start_loop_start
    \/ \E rc \in {0, 5}, tags \in TagLists : on_connect(rc, tags)
    \/ subscribe_to_topics
    \/ \E topic \in Tags, payload \in Payloads, success \in BOOLEAN :
           on_message(topic, payload, success)

SpecMsg == InitMsg /\ [][NextMsg]_vars

\* The main thread and the worker thread in front of a broker whose answer
\* to a connection never arrives.  The worker thread is scheduled: a call of
\* client.connect returns or raises (its socket has a timeout), time.sleep
\* returns, and the loop test is executed.
NextRetry ==
    \/ handler_start
    \/ handler_stop
    \/ worker_stop
    \/ worker_stop_loop_stop
    \/ worker_stop_disconnect
    \/ worker_stop_clear
    \/ worker_stop_emit
    \/ handler_stop_quit
    \/ handler_stop_wait
    \/ on_connected
    \/ on_connection_failed
    \/ worker_start
    \/ connect_with_retry_loop
    \/ \E ok \in BOOLEAN : connect_with_retry_connect(ok)
    \/ connect_with_retry_sleep
    \/ worker_start_loop_start
    \/ singleShot_connect_with_retry
    \/ thread_finished

SpecRetry ==
    /\ InitMqtt
    /\ [][NextRetry]_vars
    /\ WF_vars(connect_with_retry_loop)
    /\ WF_vars(\E ok \in BOOLEAN : connect_with_retry_connect(ok))
    /\ WF_vars(connect_with_retry_sleep)

\* The handler and its worker in front of a broker that answers a connection
\* with any result code and, asked again and again, accepts in the end (strong
\* fairness of a call of client.connect that returns).  The three threads are
\* scheduled: the event loop of the main thread runs the slots of the queued
\* signals and a stop that has begun goes on, the worker thread runs its
\* calls and its event loop, the network thread its callbacks.
NextReconnect ==
    \/ NextRetry
    \/ \E rc \in {0, 5}, tags \in TagLists : on_connect(rc, tags)
    \/ subscribe_to_topics

SpecReconnect ==
    /\ InitMqtt
    /\ [][NextReconnect]_vars
    /\ WF_vars(on_connected)
    /\ WF_vars(on_connection_failed)
    /\ WF_vars(worker_stop)
    /\ WF_vars(worker_stop_loop_stop)
    /\ WF_vars(worker_stop_disconnect)
    /\ WF_vars(worker_stop_clear)
    /\ WF_vars(worker_stop_emit)
    /\ WF_vars(handler_stop_quit)
    /\ WF_vars(handler_stop_wait)
    /\ WF_vars(worker_start)
    /\ WF_vars(connect_with_retry_loop)
    /\ WF_vars(\E ok \in BOOLEAN : connect_with_retry_connect(ok))
    /\ SF_vars(connect_with_retry_connect(TRUE))
    /\ WF_vars(connect_with_retry_sleep)
    /\ WF_vars(worker_start_loop_start)
    /\ WF_vars(singleShot_connect_with_retry)
    /\ WF_vars(thread_finished)
    /\ WF_vars(\E rc \in {0, 5}, tags \in TagLists : on_connect(rc, tags))
    /\ WF_vars(subscribe_to_topics)


\* ---------------------------------------------------------------- system
SwitchTag == \E tag_name \in TagInputs : setup_time_view_plot(tag_name)

\* a batch of one of the lengths lens arrives on some topic, while fewer than
\* most batches have been consumed
DataReceived(lens, most) ==
    /\ Len(consumed) < most
    /\ \E tag_name \in Tags, n \in lens, t \in Times,
          success \in (IF is_saving THEN BOOLEAN ELSE {TRUE}) :
           on_data_received(tag_name, Batch(Len(consumed) + 1, n), t, success)

\* The whole feature; the batches are of one group each.
Next ==
    \/ start_saving
    \/ stop_saving
    \/ SwitchTag
    \/ DataReceived(OneGroup, MaxMsgs)
    \/ update_time_view_plot

Spec == Init /\ [][Next]_vars

\* The feature while the user does not record: batches of every length in
\* Lens.  start_saving and stop_saving write none of the buffer fields.
NextBuf ==
    \/ SwitchTag
    \/ DataReceived(Lens, BufMsgs)
    \/ update_time_view_plot

SpecBuf == Init /\ [][NextBuf]_vars

\* a batch arrives at one of the instants times
DataReceivedAt(lens, most, times) ==
    /\ Len(consumed) < most
    /\ \E tag_name \in Tags, n \in lens, t \in times :
           on_data_received(tag_name, Batch(Len(consumed) + 1, n), t, TRUE)

\* The feature while the user does not record: full batches at rates that
\* make the buffers grow and shrink while they hold samples.
NextWin ==
    \/ SwitchTag
    \/ DataReceivedAt(FullBatch, WinMsgs, WinTimes)
    \/ update_time_view_plot

SpecWin == Init /\ [][NextWin]_vars

\* ------------------------------------------------------------ y ticks
\* A float is [kind |-> "finite", v |-> n] for the whole number n (the
\* buffers hold float(v) of 16-bit words, line 282), or nan, or inf.  The
\* results of generate_y_ticks are in hundredths: on whole numbers every
\* intermediate value of lines 338-350 is a whole number of hundredths, and
\* those that decide a ceil, a floor or the end of the loop are exact binary
\* fractions.
Float(n) == [kind |-> "finite", v |-> n]
NonFinite == {[kind |-> "nan"], [kind |-> "inf"]}
isfinite(x) == x.kind = "finite"
TickValues == {Float(n) : n \in (0 - MaxTick)..MaxTick} \cup NonFinite
TickLists == UNION {[1..n -> TickValues] : n \in 0..MaxTickLen}

\* max(values) and min(values), in hundredths
MaxHundredths(xs) ==
    100 * (CHOOSE m \in {xs[i].v : i \in 1..Len(xs)} :
               \A i \in 1..Len(xs) : xs[i].v <= m)
MinHundredths(xs) ==
    100 * (CHOOSE m \in {xs[i].v : i \in 1..Len(xs)} :
               \A i \in 1..Len(xs) : xs[i].v >= m)

\* np.ceil(a / b) and np.floor(a / b) for b > 0
CeilDiv(a, b) == 0 - ((0 - a) \div b)
FloorDiv(a, b) == a \div b

\* np.arange(0, 100, 10)
DefaultTicks == [k \in 1..10 |-> 100 * 10 * (k - 1)]

\* the loop of lines 347-349
RECURSIVE TickLoop(_, _, _, _)
TickLoop(ticks, current, step, y_max) ==
    IF current <= y_max
    THEN TickLoop(Append(ticks, current), current + step, step, y_max)
    ELSE ticks

generate_y_ticks_FlatPadding(xs) ==
    IF xs = <<>> \/ ~(\A i \in 1..Len(xs) : isfinite(xs[i]))
    THEN DefaultTicks
    ELSE LET padding == (MaxHundredths(xs) - MinHundredths(xs)) \div 10
             y_max == MaxHundredths(xs) + padding
             y_min == MinHundredths(xs) - padding
             range_val == y_max - y_min
             step == CeilDiv(Max(range_val \div 10, 100), 50) * 50
         IN  TickLoop(<<>>, FloorDiv(y_min, step) * step, step, y_max)

\* generate_y_ticks(values), lines 335-351
generate_y_ticks(xs) ==
    IF xs = <<>> \/ ~(\A i \in 1..Len(xs) : isfinite(xs[i]))
    THEN DefaultTicks
    ELSE LET padding == IF MaxHundredths(xs) # MinHundredths(xs)
                        THEN (MaxHundredths(xs) - MinHundredths(xs)) \div 10
                        ELSE 100
             y_max == MaxHundredths(xs) + padding
             y_min == MinHundredths(xs) - padding
             range_val == y_max - y_min
             step == CeilDiv(Max(range_val \div 10, 100), 50) * 50
         IN  TickLoop(<<>>, FloorDiv(y_min, step) * step, step, y_max)

\* ax.set_yticks(self.generate_y_ticks(window_values)), lines 379 and 389
set_yticks ==
    /\ yticks' = generate_y_ticks(window_values)
    /\ UNCHANGED <<window_values, feature_vars, worker_vars>>

\* One axis and every list of at most MaxTickLen values.
InitTicks ==
    /\ FeatureInit
    /\ WorkerInit("little")
    /\ window_values \in TickLists
    /\ yticks = <<>>

NextTicks == set_yticks

SpecTicks == InitTicks /\ [][NextTicks]_vars

\* ------------------------------------------------- producer and feature
\* the samples of one group published on a topic, told apart by the topic
TopicNo(topic) == IF topic = "tagA" THEN 1 ELSE 2
TopicValues(topic) == [i \in 1..4 |-> 10 * TopicNo(topic) + i]
TopicPayload(order, topic) == Pack(order, TopicValues(topic))

\* The handler passes data_received of the worker on (mqtthandler.py line
\* 137) to the slot on_data_received of the feature (time_view.py line 414),
\* on the main thread; success is the answer of db.save_timeview_message.
MessageDecoded(current_time, success) ==
    /\ main_pc = "idle"
    /\ queue # <<>>
    /\ Head(queue).sig = "data_received"
    /\ queue' = Tail(queue)
    /\ on_data_received_body(Head(queue).tag_name, Head(queue).values,
                             current_time, success)
    /\ UNCHANGED <<handler_running, worker_running, subscribed_topics,
                   main_pc, worker_pc, attempt, round_from, quit_requested,
                   retry_timers, loop_running, link, net_pc, net_tags,
                   net_todo, broker_topics, byteorder, inbound, round, starts,
                   reconnects, worker_starts, stopped_count, after_stopped,
                   subscribe_count, subscription_writers, outcome>>
    /\ UNCHANGED axis_vars

\* The feature behind a handler whose worker connects at once to a broker
\* that holds both tags of the project; every message is one group of its
\* topic's samples and is stored.
NextTag ==
    \/ start_saving
    \/ stop_saving
    \/ SwitchTag
    \/ handler_start
    \/ worker_start
    \/ connect_with_retry_loop
    \/ connect_with_retry_connect(TRUE)
    \/ worker_start_loop_start
    \/ on_connected
    \/ on_connect(0, <<"tagA", "tagB">>)
    \/ subscribe_to_topics
    \/ \E topic \in Tags :
           on_message(topic, TopicPayload(byteorder, topic), TRUE)
    \/ \E t \in Times, success \in (IF is_saving THEN BOOLEAN ELSE {TRUE}) :
           MessageDecoded(t, success)

SpecTag == Init /\ [][NextTag]_vars

\* ================================================================ claims
LastN(s, k) == SubSeq(s, Len(s) - k + 1, Len(s))

\* the calls of the storage collaborator made in session k
CallsOf(k) == {c \in 1..Len(save_calls) : save_calls[c].session = k}

Buffers == <<time_view_buffers, time_view_timestamps>>

\* C1: start_saving() with no valid tag selected (mqtt_tag unset, empty or the
\* 'No Tags Available' placeholder) reports the error and leaves the recording
\* flag, the frame index, the filename counter and all buffers as they were.
C1_StartWithoutTagChangesNothing ==
    [][(start_saving /\ mqtt_tag \in {None, "", NoTagsAvailable})
         => /\ time_result' = "Error: Please select a valid tag!"
            /\ UNCHANGED <<is_saving, frame_index, filename_counter, Buffers,
                           last_data_time, data_rate, mqtt_tag>>]_vars

\* a start was refused: the error is on display and nothing is recording
C1_Witness ==
    /\ time_result = "Error: Please select a valid tag!"
    /\ mqtt_tag = None
    /\ ~is_saving /\ frame_index = 0 /\ filename_counter = 1

\* C2: start_saving() with a valid tag selected puts the controller in
\* Recording with frame index 0, and every frame submitted in a session carries
\* the filename data<N>, N the filename counter at the moment of that start.
C2_StartEntersRecording ==
    /\ [][(start_saving /\ mqtt_tag \in Tags)
            => /\ is_saving' /\ frame_index' = 0
               /\ Len(sessions') = Len(sessions) + 1
               /\ sessions'[Len(sessions')].name = <<"data", filename_counter>>]_vars
    /\ [](\A c \in 1..Len(save_calls) :
             /\ save_calls[c].session \in 1..Len(sessions)
             /\ save_calls[c].frame.filename = sessions[save_calls[c].session].name)

\* the second session (data2) is recording and has written two frames
C2_Witness ==
    /\ is_saving
    /\ Len(sessions) = 2
    /\ sessions[2].name = <<"data", 2>>
    /\ Cardinality(CallsOf(2)) = 2
    /\ \A c \in CallsOf(2) : save_calls[c].success

\* C3: over start/stop cycles the filenames of successive sessions increase:
\* a session ended by stop_saving() leaves the counter exactly one above its
\* own number, whether it wrote no frame or many, and the next session takes
\* that number.
C3_StopIncrementsFilename ==
    \A k \in 1..Len(sessions) :
        sessions[k].ended = "stop" =>
            IF k < Len(sessions)
            THEN sessions[k + 1].name = <<"data", sessions[k].name[2] + 1>>
            ELSE filename_counter = sessions[k].name[2] + 1

\* two sessions ended by stop: data1 with no frame, data2 with two
C3_Witness ==
    /\ Len(sessions) = 2
    /\ sessions[1].ended = "stop" /\ sessions[2].ended = "stop"
    /\ sessions[1].name = <<"data", 1>> /\ sessions[2].name = <<"data", 2>>
    /\ CallsOf(1) = {}
    /\ Cardinality({c \in CallsOf(2) : save_calls[c].success}) = 2
    /\ filename_counter = 3

\* a batch was consumed for the selected tag in this step
ConsumedStep == Len(consumed') = Len(consumed) + 1
\* the call made in this step, when one was made
NewCall == save_calls'[Len(save_calls')]
OneCallMade == Len(save_calls') = Len(save_calls) + 1
                 /\ SubSeq(save_calls', 1, Len(save_calls)) = save_calls

\* C4 as stated: while Recording every batch consumed for the active tag
\* submits exactly one frame tagged with the current frame index and the frame
\* index is one greater afterwards; while Idle no frame is submitted.
C4_AsStated ==
    [][ConsumedStep =>
          IF is_saving
          THEN /\ OneCallMade
               /\ NewCall.frame.frameIndex = frame_index
               /\ frame_index' = frame_index + 1
          ELSE save_calls' = save_calls]_vars

\* C4 amended: while Recording every batch consumed for the active tag submits
\* exactly one frame tagged with the current frame index; the frame index is
\* one greater afterwards when the storage collaborator stored the frame and
\* unchanged when it refused it; while Idle no frame is submitted and the
\* frame index stays.
C4_FramePerBatch ==
    [][ConsumedStep =>
          IF is_saving
          THEN /\ OneCallMade
               /\ NewCall.frame.frameIndex = frame_index
               /\ NewCall.frame.topic = mqtt_tag
               /\ frame_index' = IF NewCall.success THEN frame_index + 1
                                                     ELSE frame_index
          ELSE save_calls' = save_calls /\ frame_index' = frame_index]_vars

\* a refused frame 0 followed by a stored frame 0: the index moved once
C4_Witness ==
    /\ Len(save_calls) = 2
    /\ ~save_calls[1].success /\ save_calls[2].success
    /\ save_calls[1].frame.frameIndex = 0 /\ save_calls[2].frame.frameIndex = 0
    /\ frame_index = 1
    /\ is_saving

\* C5: when the storage collaborator refuses a frame during Recording the
\* controller stays in Recording with the same filename, the failure is
\* reported, and every later batch for the active tag is still submitted.
C5_FailedWriteKeepsRecording ==
    [][ConsumedStep /\ is_saving =>
          /\ OneCallMade
          /\ NewCall.frame.filename = <<"data", filename_counter>>
          /\ ~NewCall.success =>
                /\ is_saving'
                /\ filename_counter' = filename_counter
                /\ time_result' = "Error saving data"]_vars

\* after a refused frame the same session submitted the next batch under the
\* same filename
C5_Witness ==
    /\ Len(save_calls) = 2
    /\ ~save_calls[1].success
    /\ save_calls[1].session = save_calls[2].session
    /\ save_calls[1].frame.filename = save_calls[2].frame.filename
    /\ is_saving

\* C6: setup_time_view_plot with a valid tag leaves, in the one step that
\* selects it, all four channel buffers and the timestamp buffer empty, the
\* rate 1.0, no previous arrival instant, the controller Idle and the frame
\* index 0; with an empty or placeholder tag name none of that state changes.
C6_TagSwitchResets ==
    [][\A tag_name \in TagInputs :
          setup_time_view_plot(tag_name) =>
              IF tag_name \in Tags
              THEN /\ mqtt_tag' = tag_name
                   /\ \A c \in 1..4 : time_view_buffers'[c].items = <<>>
                   /\ time_view_timestamps'.items = <<>>
                   /\ data_rate'.num = data_rate'.den
                   /\ last_data_time' = <<>>
                   /\ ~is_saving'
                   /\ frame_index' = 0
              ELSE UNCHANGED <<mqtt_tag, Buffers, data_rate, last_data_time,
                               is_saving, frame_index, filename_counter>>]_vars

\* a switch that ended an open session after two batches and a stored frame,
\* with buffers that had been resized
C6_Witness ==
    /\ time_result = "Plotting real-time data"
    /\ mqtt_tag \in Tags
    /\ Len(consumed) = 2
    /\ \E c \in 1..Len(save_calls) : save_calls[c].success
    /\ sessions # <<>> /\ sessions[Len(sessions)].ended = "switch"
    /\ time_view_buffers[1].maxlen # initial_buffer_size
    /\ time_view_buffers[1].items = <<>>

\* the last k elements of s, all of s when it has fewer
KeepLast(s, k) == IF Len(s) <= k THEN s ELSE SubSeq(s, Len(s) - k + 1, Len(s))

\* the complete groups of a batch of n values that one call looks at
GroupsOf(n) == Min(n, MaxGroups * 4) \div 4
\* what channel c (1..4) is to receive from the m-th batch, of n values
ChannelPart(c, m, n) == [g \in 1..GroupsOf(n) |-> Batch(m, n)[4 * (g - 1) + c]]

\* C7: in every reachable state the four channel buffers have one length and
\* one capacity, the timestamp buffer has 4 times that length and 4 times that
\* capacity, and timestamp entries 4k..4k+3 are the arrival timestamp of the
\* batch that the k-th retained samples of channels 0..3 came from, these four
\* samples being one group of that batch.
C7_BuffersAligned ==
    LET n == Len(time_view_buffers[1].items)
    IN  /\ \A c \in 1..4 :
              /\ Len(time_view_buffers[c].items) = n
              /\ time_view_buffers[c].maxlen = time_view_buffers[1].maxlen
        /\ Len(time_view_timestamps.items) = 4 * n
        /\ time_view_timestamps.maxlen = 4 * time_view_buffers[1].maxlen
        /\ \A k \in 1..n : \A c \in 1..4 :
              LET v == time_view_buffers[c].items[k]
              IN  /\ v = time_view_buffers[1].items[k] + (c - 1)
                  /\ PosOf(v) % 4 = c % 4
                  /\ BatchOf(v) \in 1..Len(consumed)
                  /\ time_view_timestamps.items[4 * (k - 1) + c]
                         = <<"iso", consumed[BatchOf(v)].time>>

\* full, resized buffers holding samples of two batches that arrived at
\* different instants
C7_Witness ==
    /\ time_view_buffers[1].maxlen = MinBufferSize
    /\ Len(time_view_buffers[1].items) = MinBufferSize
    /\ Len(consumed) = 2
    /\ consumed[1].time # consumed[2].time
    /\ BatchOf(time_view_buffers[1].items[1]) = 1
    /\ BatchOf(time_view_buffers[4].items[MinBufferSize]) = 2

\* C8: split_and_store_values on a batch v with timestamp T looks at the first
\* MaxGroups*4 values only, appends for each complete group g among them
\* v[4g], v[4g+1], v[4g+2], v[4g+3] to channels 0..3 in group order and T four
\* times to the timestamp buffer (the deques evicting their oldest entries
\* when full), and drops a trailing partial group.
C8_Demultiplex ==
    [][ConsumedStep =>
          LET m == Len(consumed')
              n == consumed'[m].n
              T == <<"iso", consumed'[m].time>>
          IN  /\ \A c \in 1..4 :
                    /\ time_view_buffers'[c].maxlen = time_view_buffers[c].maxlen
                    /\ time_view_buffers'[c].items =
                           KeepLast(time_view_buffers[c].items \o ChannelPart(c, m, n),
                                    time_view_buffers[c].maxlen)
              /\ time_view_timestamps'.maxlen = time_view_timestamps.maxlen
              /\ time_view_timestamps'.items =
                     KeepLast(time_view_timestamps.items
                                \o [k \in 1..4 * GroupsOf(n) |-> T],
                              time_view_timestamps.maxlen)]_vars

\* one batch longer than the limit, with further complete groups beyond it:
\* exactly the first MaxGroups groups are in the buffers
C8_Witness ==
    /\ Len(consumed) = 1
    /\ consumed[1].n = 4 * MaxGroups + 4
    /\ \A c \in 1..4 :
          time_view_buffers[c].items = [g \in 1..MaxGroups |-> 100 + 4 * (g - 1) + c]
    /\ Len(time_view_timestamps.items) = 4 * MaxGroups

\* what channel c has been given by the batches after the m-th, up to the last
RECURSIVE StreamSince(_, _)
StreamSince(c, m) ==
    IF m >= Len(consumed) THEN <<>>
    ELSE ChannelPart(c, m + 1, consumed[m + 1].n) \o StreamSince(c, m + 1)

\* C9: after N sample groups appended to empty channel buffers of capacity C,
\* with no resize and no tag switch in between, each channel buffer has length
\* min(N, C) and holds the most recent min(N, C) samples of its channel in
\* arrival order.
C9_RingKeepsMostRecent ==
    epoch.intact =>
        \A c \in 1..4 :
            LET stream == StreamSince(c, epoch.start)
                C == time_view_buffers[c].maxlen
            IN  /\ Len(time_view_buffers[c].items) = Min(Len(stream), C)
                /\ time_view_buffers[c].items = KeepLast(stream, C)

\* more groups than the capacity arrived, in two batches, since the buffers
\* were last empty: the oldest were evicted
C9_Witness ==
    /\ epoch.intact
    /\ Len(consumed) - epoch.start = 2
    /\ Len(StreamSince(1, epoch.start)) > time_view_buffers[1].maxlen
    /\ Len(time_view_buffers[1].items) = time_view_buffers[1].maxlen

\* C10: a render cycle that reaches adjust_buffer_size with rate r > 0 and
\* max(floor(2r), MinBufferSize) different from the capacity leaves all four
\* channel buffers with that capacity, the timestamp buffer with 4 times it,
\* and each buffer with its most recent min(old length, new capacity) entries
\* in order; when the value equals the capacity the buffers do not change.
C10_Resize ==
    [][(/\ update_time_view_plot
        /\ mqtt_tag \in Tags
        /\ Len(time_view_buffers[1].items) >= 2
        /\ data_rate.num > 0)
         => LET twice == (2 * data_rate.num) \div data_rate.den
                new == IF twice > MinBufferSize THEN twice ELSE MinBufferSize
            IN  IF new # time_view_buffers[1].maxlen
                THEN /\ \A c \in 1..4 :
                           /\ time_view_buffers'[c].maxlen = new
                           /\ time_view_buffers'[c].items =
                                  KeepLast(time_view_buffers[c].items, new)
                     /\ time_view_timestamps'.maxlen = 4 * new
                     /\ time_view_timestamps'.items =
                            KeepLast(time_view_timestamps.items, 4 * new)
                ELSE UNCHANGED Buffers]_vars

\* rate 200 has given capacities 400 and 1600, contents kept
C10_Witness ==
    /\ data_rate.num = 200 * data_rate.den
    /\ \A c \in 1..4 : time_view_buffers[c].maxlen = 400
    /\ time_view_timestamps.maxlen = 1600
    /\ Len(time_view_buffers[1].items) = initial_buffer_size
    /\ time_result = "Plotting"

\* the capacity that line 328 computes from rate r
CapacityFor(r) ==
    LET twice == (2 * r.num) \div r.den
    IN  IF twice > MinBufferSize THEN twice ELSE MinBufferSize

\* C11 as stated: after each consumption cycle for the selected tag the channel
\* buffer capacity equals max(rate * 1.0 * 2, MinBufferSize) for the current
\* rate.
C11_AsStated ==
    [][ConsumedStep =>
          time_view_buffers'[1].maxlen = CapacityFor(data_rate')]_vars

\* C11 amended: the capacity is recomputed by the render cycle, not by the
\* consumption of a message: a render cycle that finds a selected tag and at
\* least 2 samples in channel 0 leaves the capacity of every channel buffer at
\* max(floor(2 * rate), MinBufferSize) for the current rate, a render cycle
\* that finds fewer leaves the capacities alone, and so does every consumed
\* message, whatever it does to the rate.
C11_ResizeOnRender ==
    [][/\ (ConsumedStep =>
              /\ \A c \in 1..4 :
                    time_view_buffers'[c].maxlen = time_view_buffers[c].maxlen
              /\ time_view_timestamps'.maxlen = time_view_timestamps.maxlen)
        /\ (update_time_view_plot =>
              IF mqtt_tag \in Tags /\ Len(time_view_buffers[1].items) >= 2
              THEN \A c \in 1..4 :
                      time_view_buffers'[c].maxlen = CapacityFor(data_rate)
              ELSE \A c \in 1..4 :
                      time_view_buffers'[c].maxlen = time_view_buffers[c].maxlen)
       ]_vars

\* a render cycle has resized the buffers for one rate, and the next message
\* changed the rate and was stored against that older capacity
C11_Witness ==
    /\ Len(consumed) = 3
    /\ epoch.start = 0 /\ ~epoch.intact
    /\ time_view_buffers[1].maxlen # initial_buffer_size
    /\ time_view_buffers[1].maxlen # CapacityFor(data_rate)
    /\ Len(time_view_buffers[1].items) = time_view_buffers[1].maxlen

\* C12: on each message for the active tag, when there is no previous arrival
\* instant or the time elapsed since it is zero or negative the rate keeps its
\* value, otherwise the rate becomes values_count / elapsed_seconds / 4
\* whatever it was; in both cases the previous arrival instant becomes the
\* current one.  While there is no previous arrival instant (initially and
\* after a tag switch) the rate is 1.0.
C12_RateEstimator ==
    /\ [][ConsumedStep =>
            LET m == Len(consumed')
                n == consumed'[m].n
                t == consumed'[m].time
            IN  /\ last_data_time' = <<t>>
                /\ IF last_data_time = <<>> \/ t - last_data_time[1] <= 0
                   THEN data_rate' = data_rate
                   ELSE data_rate'.num * 4 * (t - last_data_time[1])
                            = n * TicksPerSec * data_rate'.den]_vars
    /\ [](last_data_time = <<>> => data_rate.num = data_rate.den)

\* three arrivals: the first with no previous instant, the second later than
\* the first (rate replaced), the third earlier than the second (rate kept)
C12_Witness ==
    /\ Len(consumed) = 3 /\ epoch.start = 0
    /\ consumed[1].time < consumed[2].time
    /\ consumed[3].time < consumed[2].time
    /\ data_rate.num * 4 * (consumed[2].time - consumed[1].time)
           = consumed[2].n * TicksPerSec * data_rate.den
    /\ data_rate.num # data_rate.den
    /\ last_data_time = <<consumed[3].time>>

\* ---- C13: a connect_with_retry round that starts while the worker is running
\* makes at most max_retries = 3 calls of client.connect, a further call only
\* after a failed one; the first success puts Connected in the queue and ends
\* the round; ConnectionFailed is put in the queue once, by the third failure
\* in a row and by nothing else, and ends the round; a round that has begun
\* comes to its end.
RoundTally ==
    round.started_running =>
        /\ round.attempts <= max_retries
        /\ round.attempts = round.failures + round.connected
                            + (IF round.active /\ worker_pc = "connecting"
                               THEN 1 ELSE 0)
        /\ round.connected <= 1
        /\ round.connected = 1 => ~round.active /\ round.failed = 0
        /\ round.failed = (IF round.failures = max_retries THEN 1 ELSE 0)
        /\ round.failed = 1 => ~round.active

RoundEmits ==
    round.active /\ round.started_running =>
        /\ round'.connected = round.connected + 1 =>
               queue' = Append(queue, ConnectedEvent) /\ ~round'.active
        /\ round'.failed = round.failed + 1 =>
               /\ queue' = Append(queue, ConnectionFailedEvent)
               /\ round'.failures = max_retries
               /\ ~round'.active
        /\ round'.connected = round.connected /\ round'.failed = round.failed
           /\ worker_pc' # worker_pc =>
               queue' = queue

OnConnectDone ==
    /\ net_pc = "subscribing"
    /\ net_todo = <<>>
    /\ net_pc' = "idle"

AllTagsSubscribed ==
    OnConnectDone =>
        \A i \in 1..Len(net_tags) : net_tags[i] \in subscribed_topics'

NoDoubleSubscribe == \A t \in Tags : subscribe_count[t] <= 1

C14_Subscriptions == [][AllTagsSubscribed]_vars /\ []NoDoubleSubscribe

\* ---- C15: MQTTWorker.stop called while running is set clears running,
\* empties subscribed_topics and emits stopped once; called while running is
\* not set (a second stop, or a stop before any start) it changes nothing and
\* emits nothing; so stopped has been emitted once for every start of the
\* worker that a stop has found.
InStopBody == main_pc \in {"loop_stop", "disconnect", "clear", "emit"}

StopWhenRunning ==
    main_pc = "worker_stop" /\ main_pc' # main_pc /\ worker_running =>
        /\ main_pc' = "loop_stop"
        /\ ~worker_running'
        /\ stopped_count' = stopped_count

StopWhenNotRunning ==
    main_pc = "worker_stop" /\ main_pc' # main_pc /\ ~worker_running =>
        /\ main_pc' = "quit"
        /\ UNCHANGED <<worker_running, subscribed_topics, loop_running, link,
                       broker_topics, queue, stopped_count, after_stopped,
                       handler_running, retry_timers>>

StopBody ==
    /\ main_pc = "clear" /\ main_pc' # main_pc => subscribed_topics' = {}
    /\ main_pc = "emit" /\ main_pc' # main_pc =>
           stopped_count' = stopped_count + 1 /\ main_pc' = "quit"
    /\ stopped_count' # stopped_count => main_pc = "emit"

StoppedOncePerStart ==
    ~InStopBody =>
        stopped_count = worker_starts - (IF worker_running THEN 1 ELSE 0)

C15_StopIdempotent ==
    /\ [][StopWhenRunning /\ StopWhenNotRunning /\ StopBody]_vars
    /\ []StoppedOncePerStart

\* the first stop after a start has emptied a set that held a topic and has
\* emitted stopped, once
C15_Witness ==
    /\ main_pc = "quit"
    /\ worker_starts = 1
    /\ stopped_count = 1
    /\ ~worker_running
    /\ subscribed_topics = {}
    /\ Context("main") \in subscription_writers

\* ---- C16: a message whose payload does not decode (odd length, or no
\* sample) is dropped: it yields no samples, puts nothing in the queue and is
\* not kept for another try, and it leaves running, subscribed_topics, the
\* connection and the network loop as they were, so that a later message is
\* taken.
Undecodable(payload) == Len(payload) % 2 # 0 \/ Len(payload) = 0

DropsUndecodable ==
    \A topic \in Tags, payload \in Payloads, success \in BOOLEAN :
        Undecodable(payload) /\ on_message(topic, payload, success) =>
            /\ Decode(byteorder, payload).values = <<>>
            /\ Decode(byteorder, payload).error # ""
            /\ UNCHANGED <<queue, worker_running, subscribed_topics,
                           broker_topics, link, loop_running, net_pc,
                           retry_timers>>
            /\ outcome' = "dropped"
            /\ inbound' = inbound + 1

C16_DropUndecodable == [][DropsUndecodable]_vars

\* a message that does not decode was dropped by a worker that runs, is connected
\* and holds its subscriptions
C16_Witness ==
    /\ outcome = "dropped"
    /\ inbound = 1
    /\ worker_running
    /\ loop_running
    /\ link = "up"
    /\ subscribed_topics # {}
    /\ \A i \in 1..Len(queue) : queue[i].sig # "data_received"

\* ---- C17: once stopped has been emitted, and until the handler is started
\* again, no connected, connection_failed or data_received signal is put in
\* the queue of the main thread.
C17_QuietAfterStopped ==
    [][after_stopped /\ after_stopped' => Len(queue') <= Len(queue)]_vars

\* ---- C18: a message whose payload decodes puts exactly one data_received
\* signal, carrying its topic and its samples, in the queue of the main
\* thread.
Decodable(payload) == Decode(byteorder, payload).error = ""

\* as stated: whatever the database answers
C18_AsStated ==
    [][\A topic \in Tags, payload \in Payloads, success \in BOOLEAN :
           Decodable(payload) /\ on_message(topic, payload, success) =>
               queue' = Append(queue,
                           DataEvent(topic, Decode(byteorder, payload).values))]_vars

\* amended: exactly one signal when db.update_tag_value stored the samples,
\* none when it refused them
C18_OneEventIfStored ==
    [][\A topic \in Tags, payload \in Payloads, success \in BOOLEAN :
           Decodable(payload) /\ on_message(topic, payload, success) =>
               /\ success =>
                      /\ queue' = Append(queue,
                                    DataEvent(topic,
                                        Decode(byteorder, payload).values))
                      /\ outcome' = "emitted"
               /\ ~success => queue' = queue /\ outcome' = "refused"]_vars

\* the samples of a message were refused by the database and no signal was
\* put in the queue behind the two connected signals
C18_Witness ==
    /\ outcome = "refused"
    /\ inbound = 1
    /\ queue = <<ConnectedEvent, ConnectedEvent>>

\* ---- C19: subscribed_topics is changed by the threads of the transport
\* only (the worker thread and the network thread), never by the main thread
\* that consumes the signals, so that no two contexts write it.
C19_SingleWriter == subscription_writers \subseteq {Context("network")}

\* ---- C20: for a payload of even length and of 2 bytes or more, packing the
\* samples that on_message decoded from it, as the publisher packs them,
\* gives the bytes of the payload back, and the samples are half as many as
\* the bytes.
RoundTrip(payload) ==
    LET values == Decode(byteorder, payload).values
    IN  /\ Decode(byteorder, payload).error = ""
        /\ 2 * Len(values) = Len(payload)
        /\ \A i \in 1..Len(values) : values[i] \in 0..65535
        /\ Pack(byteorder, values) = payload

C20_RoundTrip ==
    [][\A topic \in Tags, payload \in Payloads :
           /\ Len(payload) % 2 = 0
           /\ Len(payload) >= 2
           /\ on_message(topic, payload, TRUE)
           => /\ RoundTrip(payload)
              /\ queue'[Len(queue')].values = Decode(byteorder, payload).values]_vars

\* the samples of the payload 0, 255, 255, 0 are in the queue, on a machine
\* of either byte order
C20_Witness ==
    /\ outcome = "emitted"
    /\ queue # <<>>
    /\ queue[Len(queue)].sig = "data_received"
    /\ Len(queue[Len(queue)].values) = 2
    /\ Pack(byteorder, queue[Len(queue)].values) = <<0, 255, 255, 0>>
    /\ queue[Len(queue)].values =
           IF byteorder = "little" THEN <<65280, 255>> ELSE <<255, 65280>>

\* ---- C21: while the handler is running, every connection_failed signal is
\* followed by a call of connect_with_retry from the one-shot timer of
\* on_connection_failed, one call for one signal and as often as signals come
\* (signals and timers are pending only finitely long, or calls from the timer
\* begin again and again);
\* and a call from the timer in a running handler leads, the broker accepting
\* in the end, to a round that emits connected.
Pending ==
    retry_timers
    + Cardinality({i \in 1..Len(queue) : queue[i] = ConnectionFailedEvent})

TimerRoundStarts ==
    /\ worker_pc' = "retry_loop"
    /\ round_from' = "timer"
    /\ round' = NewRound
    /\ attempt' = 0

OneRoundPerFailure ==
    Pending' < Pending => Pending' = Pending - 1 /\ TimerRoundStarts

C21_RetryForever ==
    /\ [][OneRoundPerFailure]_vars
    /\ \/ []<>(~handler_running \/ Pending = 0)
       \/ []<><<TimerRoundStarts /\ Pending' = Pending - 1>>_vars
    /\ (handler_running /\ round.active /\ round_from = "timer")
           ~> (round.connected = 1 \/ ~handler_running)

\* a round called by the timer, after a failure was reported, has connected
C21_Witness ==
    /\ handler_running
    /\ worker_running
    /\ round_from = "timer"
    /\ round.started_running
    /\ round.connected = 1
    /\ retry_timers = 0

\* ---- C22: a render cycle that finds a tag and 2 samples or more in a
\* channel sets samples_per_window = max(min(length, floor(rate)), 2), with
\* the length the channel had before the cycle's resize; the window of every
\* channel then holds exactly that many values, the newest ones of the channel
\* in their order, and the window of timestamps holds as many, the arrival
\* time of each of these samples, also when the cycle has resized the buffers.
ReachesWindowing ==
    /\ update_time_view_plot
    /\ mqtt_tag \notin {None, ""}
    /\ Len(time_view_buffers[1].items) >= 2

WindowsOf(n) ==
    /\ n = Max(Min(Len(time_view_buffers[1].items), RateFloor(data_rate)), 2)
    /\ \A c \in 1..4 :
           /\ n <= Len(time_view_buffers[c].items)
           /\ n <= Len(time_view_buffers'[c].items)
           /\ Len(WindowValues(time_view_buffers'[c], n)) = n
           /\ WindowValues(time_view_buffers'[c], n)
                  = LastN(time_view_buffers[c].items, n)
           /\ WindowValues(time_view_buffers'[c], n)
                  = LastN(time_view_buffers'[c].items, n)
    /\ Len(WindowTimestamps(time_view_timestamps', n)) = n
    /\ Len(time_view_timestamps'.items) = 4 * Len(time_view_buffers'[1].items)
    /\ \A k \in 1..n :
           WindowTimestamps(time_view_timestamps', n)[k]
               = time_view_timestamps'.items[
                     4 * (Len(time_view_buffers'[1].items) - n + k)]

C22_Windows == [][ReachesWindowing => WindowsOf(samples_per_window')]_vars

\* a cycle has found more samples in a channel than the rate, has changed
\* the capacity and has set samples_per_window to the rate, more than 2
C22_Witness ==
    /\ time_result = "Plotting"
    /\ samples_per_window = RateFloor(data_rate)
    /\ samples_per_window > 2
    /\ ~epoch.intact
    /\ time_view_buffers[1].maxlen = NewBufferSize(data_rate)
    /\ Len(time_view_buffers[1].items) > samples_per_window
    /\ Len(time_view_buffers[1].items) = time_view_buffers[1].maxlen

\* ---- C23
\* the values of a list of finite values, in hundredths
ValuesOf(xs) == {100 * xs[i].v : i \in 1..Len(xs)}
AllFinite(xs) == \A i \in 1..Len(xs) : isfinite(xs[i])
Lowest(S) == CHOOSE m \in S : \A x \in S : m <= x
Highest(S) == CHOOSE m \in S : \A x \in S : x <= m
PaddingOf(S) == IF Lowest(S) = Highest(S) THEN 100 ELSE (Highest(S) - Lowest(S)) \div 10
PaddedMin(S) == Lowest(S) - PaddingOf(S)
PaddedMax(S) == Highest(S) + PaddingOf(S)
\* step is the least multiple of 0.5 that is at least max(range / 10, 1)
IsStep(step, S) ==
    /\ step % 50 = 0
    /\ 10 * step >= PaddedMax(S) - PaddedMin(S)
    /\ step >= 100
    /\ 10 * (step - 50) < PaddedMax(S) - PaddedMin(S) \/ step - 50 < 100
\* ts is floor(y_min / step) * step, + step, ... up to the padded y_max
IsTicks(ts, step, S) ==
    /\ Len(ts) >= 1
    /\ ts[1] % step = 0
    /\ ts[1] <= PaddedMin(S)
    /\ PaddedMin(S) < ts[1] + step
    /\ \A k \in 1..(Len(ts) - 1) : ts[k + 1] = ts[k] + step
    /\ ts[Len(ts)] <= PaddedMax(S)
    /\ PaddedMax(S) < ts[Len(ts)] + step

\* C23: the ticks set from a non-empty list of finite values start at
\* floor(y_min / step) * step and go up by step to the padded y_max, where
\* the padding is 1 for equal values and 10% of the range otherwise and step
\* is max(range / 10, 1) rounded up to a multiple of 0.5; [10, 10] gives
\* [9, 10, 11]; the ticks set from the empty list are 0, 10, ..., 90.
C23_Ticks ==
    yticks # <<>> =>
        /\ window_values = <<>> => yticks = [k \in 1..10 |-> 1000 * (k - 1)]
        /\ (window_values # <<>> /\ AllFinite(window_values)) =>
               \E step \in 1..(100 * 4 * (MaxTick + 1)) :
                   /\ IsStep(step, ValuesOf(window_values))
                   /\ IsTicks(yticks, step, ValuesOf(window_values))
        /\ window_values = <<Float(10), Float(10)>> => yticks = <<900, 1000, 1100>>

\* the ticks of [10, 10] are set
C23_Witness ==
    /\ window_values = <<Float(10), Float(10)>>
    /\ yticks = <<900, 1000, 1100>>

\* ---- C24
\* the main thread hands the slot a batch whose topic is not the selected tag
ForeignDelivery ==
    /\ queue # <<>>
    /\ Head(queue).sig = "data_received"
    /\ queue' = Tail(queue)
    /\ Head(queue).tag_name # mqtt_tag
\* the main thread hands the slot a batch of the selected tag
OwnDelivery ==
    /\ queue # <<>>
    /\ Head(queue).sig = "data_received"
    /\ queue' = Tail(queue)
    /\ Head(queue).tag_name = mqtt_tag
SamplesOf(topic) == {TopicValues(topic)[i] : i \in 1..4}
\* every sample in the buffers is one of the selected tag, every frame
\* handed to the storage holds samples of the topic it names
FromSelectedTag ==
    /\ \A c \in 1..4 : \A i \in 1..Len(time_view_buffers[c].items) :
           /\ mqtt_tag \in Tags
           /\ time_view_buffers[c].items[i] \in SamplesOf(mqtt_tag)
    /\ \A k \in 1..Len(save_calls) :
           /\ save_calls[k].frame.topic \in Tags
           /\ \A j \in 1..Len(save_calls[k].frame.message) :
                  save_calls[k].frame.message[j]
                      \in SamplesOf(save_calls[k].frame.topic)
\* a frame is written only for a batch of the selected tag, under its name
FrameOfSelectedTag ==
    save_calls' # save_calls =>
        /\ OwnDelivery
        /\ Len(save_calls') = Len(save_calls) + 1
        /\ save_calls'[Len(save_calls')].frame.topic = mqtt_tag
        /\ save_calls'[Len(save_calls')].frame.message = Head(queue).values

\* C24: a batch on another topic than the selected tag changes none of
\* buffers, timestamps, rate, last arrival instant, recording flag and frame
\* index and writes no frame; the samples in the buffers and the frames
\* written are those of batches of the tag selected when they were consumed.
C24_ForeignTopicIgnored ==
    /\ [][ForeignDelivery =>
            UNCHANGED <<time_view_buffers, time_view_timestamps, data_rate,
                        last_data_time, is_saving, frame_index, save_calls,
                        consumed>>]_vars
    /\ [][FrameOfSelectedTag]_vars
    /\ []FromSelectedTag

\* the one batch the worker emitted has been handed to the slot, which was
\* recording another tag, and has left no trace
C24_Witness ==
    /\ inbound = 1
    /\ outcome = "emitted"
    /\ queue = <<>>
    /\ mqtt_tag = "tagB"
    /\ is_saving
    /\ frame_index = 0
    /\ consumed = <<>>
    /\ save_calls = <<>>
    /\ last_data_time = <<>>
    /\ \A c \in 1..4 : time_view_buffers[c].items = <<>>

\* ---- C25
\* the calls of db.save_timeview_message that stored their frame
Persisted == {k \in 1..Len(save_calls) : save_calls[k].success}
\* the frames stored before call k under the filename of call k
EarlierUnder(k) ==
    {j \in Persisted : j < k /\ save_calls[j].frame.filename
                                  = save_calls[k].frame.filename}

\* C25: no two stored frames carry the same filename and frame index, and
\* the frames stored under one filename carry the indices 0, 1, 2, ... in
\* the order of their writing.
C25_UniqueFrames ==
    /\ \A j, k \in Persisted :
           (j # k) =>
               <<save_calls[j].frame.filename, save_calls[j].frame.frameIndex>>
                   # <<save_calls[k].frame.filename, save_calls[k].frame.frameIndex>>
    /\ \A k \in Persisted :
           save_calls[k].frame.frameIndex = Cardinality(EarlierUnder(k))

\* ---- C26
\* the worker is connected: the link is up and on_connect has returned; no
\* stop has been called since the handler was started
ConnectedUnstopped ==
    /\ link = "up"
    /\ net_pc = "idle"
    /\ worker_running
    /\ main_pc = "idle"
    /\ stopped_count = 0

\* C26: while the worker is connected and no stop has been called, the
\* topics in subscribed_topics are the topics subscribed at the broker.
C26_SubscriptionsMatch == ConnectedUnstopped => subscribed_topics = broker_topics

\* ---- C27
\* stop has set running to False: it was set by a start and is not set now
StoppedByStop == ~worker_running /\ worker_starts >= 1
\* connect_with_retry calls client.connect
ConnectCalled == worker_pc' = "connecting" /\ worker_pc # "connecting"
\* connect_with_retry emits connected or connection_failed
EmitsFromConnect ==
    /\ worker_pc = "connecting"
    /\ worker_pc' # "connecting"
    /\ Len(queue') > Len(queue)

\* C27: while running is False after a stop, connect_with_retry calls
\* client.connect no more and emits neither connected nor connection_failed,
\* whether the timer of the handler calls it, it wakes from its sleep or it
\* is already being executed.
C27_NoAttemptAfterStop ==
    [][(StoppedByStop /\ ~worker_running') =>
           (~ConnectCalled /\ ~EmitsFromConnect)]_vars
====
